---- MODULE Spec2Model ----
(***************************************************************************)
(* Model of import.py: the import of Loxone Miniserver statistics files    *)
(* into InfluxDB.  Strings the program matches with regular expressions    *)
(* (file names, titles) are sequences of one-character strings; Python's   *)
(* None / "raised" results of the pure helpers are the empty sequence and  *)
(* a value v is <<v>>.                                                     *)
(***************************************************************************)
EXTENDS Integers, Sequences, FiniteSets, TLC

\* ------------------------------------------------------------------ bounds
\* Longest listing response (number of lines) the Miniserver returns.
MaxLines == 2

\* Stand-in for the interpreter's recursion limit (sys.getrecursionlimit(),
\* 1000 by default and never raised by import.py), counted in nested
\* import_stats frames and scaled down.
RecursionLimit == 3

\* ------------------------------------------------------------ pure helpers
None == << >>

Some(v) == <<v>>

\* The character class [a-f0-9\-] of get_uuid_from_filename.
HexChars == {"a", "b", "c", "d", "e", "f", "-",
             "0", "1", "2", "3", "4", "5", "6", "7", "8", "9"}

\* The character class [0-9] of the title pattern.
Digits == {"0", "1", "2", "3", "4", "5", "6", "7", "8", "9"}

\* re.search("([a-f0-9\-]+)", filename): None when no character matches,
\* else the leftmost, longest run of matching characters.
UuidSearch(filename) ==
    IF \A i \in DOMAIN filename : filename[i] \notin HexChars
    THEN None
    ELSE LET first == CHOOSE i \in DOMAIN filename :
                          /\ filename[i] \in HexChars
                          /\ \A j \in 1..(i - 1) : filename[j] \notin HexChars
             last  == CHOOSE k \in first..Len(filename) :
                          /\ \A j \in first..k : filename[j] \in HexChars
                          /\ (k = Len(filename) \/ filename[k + 1] \notin HexChars)
         IN  Some(SubSeq(filename, first, last))

\* get_uuid_from_filename raises AttributeError (None has no group) exactly
\* when the search found nothing.
UuidRaises(filename) == UuidSearch(filename) = None

get_uuid_from_filename(filename) == UuidSearch(filename)[1]

\* re.search("(.*) [0-9]+$", title): the title must end with a space and one
\* or more digits; group(1) is what precedes that space.
TitleSearch(title) ==
    IF \E k \in DOMAIN title :
           /\ title[k] = " "
           /\ k < Len(title)
           /\ \A j \in (k + 1)..Len(title) : title[j] \in Digits
    THEN LET k == CHOOSE k \in DOMAIN title :
                      /\ title[k] = " "
                      /\ k < Len(title)
                      /\ \A j \in (k + 1)..Len(title) : title[j] \in Digits
         IN  Some(SubSeq(title, 1, k - 1))
    ELSE None

\* Faulty variant of DictSet: an existing key keeps its first value
\* (files.setdefault(key, value)).
DictSetKeepFirst(d, key, value) ==
    IF \E i \in DOMAIN d : d[i][1] = key
    THEN d
    ELSE Append(d, <<key, value>>)

\* files[key] = value on an insertion-ordered dict held as a sequence of
\* <<key, value>> pairs: an existing key keeps its place and takes the new
\* value, a new key goes to the end.
DictSet(d, key, value) ==
    IF \E i \in DOMAIN d : d[i][1] = key
    THEN [i \in DOMAIN d |-> IF d[i][1] = key THEN <<key, value>> ELSE d[i]]
    ELSE Append(d, <<key, value>>)

\* get_files on the lines of a successful listing response: every line the
\* anchor pattern matches sets files[href] = text.
RECURSIVE get_files_from(_, _)
get_files_from(lines, files) ==
    IF lines = << >>
    THEN files
    ELSE LET line == Head(lines)
         IN  get_files_from(Tail(lines),
                            IF line.anchor
                            THEN DictSet(files, line.href, line.text)
                            ELSE files)

get_files(lines) == get_files_from(lines, << >>)

\* Faulty variant of validate_config: the check of "influxdb" is missing.
validate_configTwoKeys(config) ==
    IF "miniserver" \notin DOMAIN config THEN FALSE
    ELSE IF "stats_map" \notin DOMAIN config THEN FALSE
    ELSE TRUE

\* validate_config: the three required top-level keys.
validate_config(config) ==
    IF "miniserver" \notin DOMAIN config THEN FALSE
    ELSE IF "influxdb" \notin DOMAIN config THEN FALSE
    ELSE IF "stats_map" \notin DOMAIN config THEN FALSE
    ELSE TRUE

\* float(stat.get(attribute)) on the raw attribute text: the value in tenths.
\* float(None) and float of non-numeric text raise.
IsNumeric(raw) == raw \in {"21.5", "7"}

ParseFloat(raw) == IF raw = "21.5" THEN 215 ELSE 70

\* Line 75: strptime reads the "YYYY-MM-DD HH:MM:SS" text as a naive wall
\* clock time (here a day number and an hour), mktime takes it as LOCAL time
\* of the host (tz hours east of UTC), gmtime turns the instant into a UTC
\* wall clock time and strftime prints it with a trailing Z.
ConvertTime(t, tz) ==
    LET epoch == (t.day - 1) * 24 + t.hour - tz
    IN  [day |-> (epoch \div 24) + 1, hour |-> epoch % 24, zone |-> "Z"]

\* Lines 77-84: fields[field] = float(stat.get(attribute)) for the items of
\* value_map in order; None when a float() raises.
RECURSIVE BuildFields(_, _, _)
BuildFields(items, stat, fields) ==
    IF items = << >>
    THEN Some(fields)
    ELSE LET attribute == Head(items)[1]
             field     == Head(items)[2]
         IN  IF attribute \notin DOMAIN stat.attrs
             THEN None
             ELSE IF ~IsNumeric(stat.attrs[attribute])
             THEN None
             ELSE BuildFields(Tail(items), stat,
                              (field :> ParseFloat(stat.attrs[attribute]))
                                  @@ fields)

\* Lines 73-91: the point of one S element, None when the body of the loop
\* raises (no T attribute, or a mapped attribute missing or non-numeric).
TransformRecord(stat, measurement, tags, value_map, tz) ==
    IF stat.T = None
    THEN None
    ELSE LET fields == BuildFields(value_map, stat, << >>)
         IN  IF fields = None
             THEN None
             ELSE Some([measurement |-> measurement,
                        tags        |-> tags,
                        time        |-> ConvertTime(stat.T[1], tz),
                        fields      |-> fields[1]])

\* Faulty variant of UniqueStats: one entry per file, not per identifier.
RECURSIVE UniqueStatsPerFile(_, _)
UniqueStatsPerFile(files, unique) ==
    IF files = << >>
    THEN Some(unique)
    ELSE IF UuidRaises(Head(files)[1])
    THEN None
    ELSE UniqueStatsPerFile(Tail(files),
                            Append(unique,
                                   <<get_uuid_from_filename(Head(files)[1]),
                                     Head(files)[2]>>))

\* Lines 155-158: unique_stats[get_uuid_from_filename(filename)] = title
\* over files.items(); None when get_uuid_from_filename raises.
RECURSIVE UniqueStats(_, _)
UniqueStats(files, unique) ==
    IF files = << >>
    THEN Some(unique)
    ELSE IF UuidRaises(Head(files)[1])
    THEN None
    ELSE UniqueStats(Tail(files),
                     DictSet(unique, get_uuid_from_filename(Head(files)[1]),
                             Head(files)[2]))

\* Lines 160-163: one row [uuid, name] per item of unique_stats; None when a
\* title has no numeric suffix (the search returns None and .group raises).
RECURSIVE StatsList(_, _)
StatsList(unique, rows) ==
    IF unique = << >>
    THEN Some(rows)
    ELSE IF TitleSearch(Head(unique)[2]) = None
    THEN None
    ELSE StatsList(Tail(unique),
                   Append(rows, <<Head(unique)[1],
                                  TitleSearch(Head(unique)[2])[1]>>))

\* Faulty variant of ResolveValueMap: the default maps "V" to a field of
\* the same name.
ResolveValueMapDefaultV(map_entry) ==
    IF "values" \in DOMAIN map_entry
    THEN map_entry.values
    ELSE << <<"V", "V">> >>

\* Lines 189-203: the measurement, tags and value_map of a mapping entry.
ResolveTags(map_entry) ==
    IF "tags" \in DOMAIN map_entry THEN Some(map_entry.tags) ELSE None

ResolveValueMap(map_entry) ==
    IF "values" \in DOMAIN map_entry
    THEN map_entry.values
    ELSE << <<"V", "value">> >>

\* ------------------------------------------------------------------ inputs
\* File names of the listing: two monthly files of one sensor, a file of a
\* second sensor whose name starts with a non-hex character, and a name
\* with no hex digit or hyphen at all.
FileA1 == <<"a", "-", "1", ".", "1">>

FileA2 == <<"a", "-", "1", ".", "2">>

FileB == <<"x", "b", "2">>

FileNoId == <<"x", ".", "x">>

UuidA == <<"a", "-", "1">>

UuidB == <<"b", "2">>

\* Lines of the listing response: anchor lines (href, text) and a line the
\* anchor pattern does not match.
ListingLines ==
    { [anchor |-> TRUE,  href |-> FileA1,   text |-> <<"L", " ", "1">>],
      [anchor |-> TRUE,  href |-> FileA1,   text |-> <<"L", " ", "2">>],
      [anchor |-> TRUE,  href |-> FileA2,   text |-> <<"M", " ", "2">>],
      [anchor |-> TRUE,  href |-> FileB,    text |-> <<"K", " ", "1">>],
      [anchor |-> TRUE,  href |-> FileB,    text |-> <<"K">>],
      [anchor |-> TRUE,  href |-> FileNoId, text |-> <<"N", " ", "1">>],
      [anchor |-> FALSE, href |-> << >>,    text |-> << >>] }

Responses == UNION {[1..n -> ListingLines] : n \in 0..MaxLines}

\* stats_map of the configuration: an entry with only a measurement, and
\* entries with tags and values.
StatsMapA == (UuidA :> [measurement |-> "temp"])

StatsMapAB ==
    (UuidA :> [measurement |-> "climate",
               tags        |-> [room |-> "lr"],
               values      |-> << <<"V", "t">>, <<"V2", "h">> >>])
    @@ (UuidB :> [measurement |-> "power"])

\* The configuration file: None when it does not exist, else its JSON.
ConfigFiles ==
    { None,
      Some([miniserver |-> "ms", influxdb |-> "db", stats_map |-> StatsMapA]),
      Some([miniserver |-> "ms", influxdb |-> "db", stats_map |-> StatsMapAB]),
      Some([influxdb |-> "db", stats_map |-> StatsMapA]),
      Some([miniserver |-> "ms", stats_map |-> StatsMapA]),
      Some([miniserver |-> "ms", influxdb |-> "db"]) }

\* UTC offsets (hours east) of the host's local time zone.
TzOffsets == {0, 2}

Noon == [day |-> 1, hour |-> 12]

Midnight == [day |-> 2, hour |-> 0]

\* Statistics documents the Miniserver serves: text that is no XML, and
\* documents with one or two S elements.
Contents ==
    { [wellformed |-> FALSE, S |-> << >>],
      [wellformed |-> TRUE,
       S |-> << [T |-> Some(Noon), attrs |-> [V |-> "21.5"]] >>],
      [wellformed |-> TRUE,
       S |-> << [T |-> Some(Noon),     attrs |-> [V |-> "21.5", V2 |-> "7"]],
                [T |-> Some(Midnight), attrs |-> [V |-> "7", V2 |-> "21.5"]] >>],
      [wellformed |-> TRUE,
       S |-> << [T |-> Some(Noon),     attrs |-> [V |-> "7"]],
                [T |-> Some(Midnight), attrs |-> [V |-> "abc"]] >>] }

\* ------------------------------------------------------------------- state
VARIABLES
    pc,          \* where the run is: a position of main or of import_stats
    list,        \* arguments.list
    configFile,  \* the configuration file (None: not found)
    tz,          \* UTC offset of the host's local time
    listing,     \* outcome of the listing request: "none", "ok", "failed"
    response,    \* the lines of the listing response
    files,       \* get_files' dict, as a sequence of <<filename, title>>
    idx,         \* position of the for loop of main in files.items()
    depth,       \* number of active import_stats invocations
    content,     \* request.content of the innermost invocation
    points,      \* points of the innermost invocation
    rec,         \* position of the for loop over tree.iter("S")
    writeCalls,  \* write_points calls made by the innermost invocation
    store,       \* batches InfluxDB accepted, with the file they came from
    requests,    \* number of requests for the listing resource
    fetches,     \* per file: number of requests for stats/<filename>
    fails,       \* per file: number of attempts that raised an Exception
    sleeps,      \* per file: number of completed time.sleep(10)
    warnings,    \* identifiers logged as not mapped
    printed,     \* rows list mode printed (None: nothing printed)
    cancelled,   \* a KeyboardInterrupt was delivered
    cause,       \* the exception that ended the run, "" if none
    exitStatus   \* None while running, else the process's exit status

vars == <<pc, list, configFile, tz, listing, response, files, idx, depth,
          content, points, rec, writeCalls, store, requests, fetches, fails,
          sleeps,
          warnings, printed, cancelled, cause, exitStatus>>

NoContent == [wellformed |-> FALSE, S |-> << >>]

Zeros == [i \in 1..MaxLines |-> 0]

Init ==
    /\ pc = "start"
    /\ list \in BOOLEAN
    /\ configFile \in ConfigFiles
    /\ tz \in TzOffsets
    /\ listing = "none"
    /\ response = << >>
    /\ files = << >>
    /\ idx = 0
    /\ depth = 0
    /\ content = NoContent
    /\ points = << >>
    /\ rec = 0
    /\ writeCalls = 0
    /\ store = << >>
    /\ requests = 0
    /\ fetches = Zeros
    /\ fails = Zeros
    /\ sleeps = Zeros
    /\ warnings = << >>
    /\ printed = None
    /\ cancelled = FALSE
    /\ cause = ""
    /\ exitStatus = None

config == configFile[1]

stats_map == config.stats_map

filename == files[idx][1]

map_entry == stats_map[get_uuid_from_filename(filename)]

\* Faulty variant of Uncaught: the exception is swallowed at top level and
\* the process ends with status 0.
UncaughtExitZero(exception) ==
    /\ pc' = "crashed"
    /\ cause' = exception
    /\ exitStatus' = Some(0)

\* An exception no handler catches: the interpreter prints the traceback
\* and the process ends with status 1.
Uncaught(exception) ==
    /\ pc' = "crashed"
    /\ cause' = exception
    /\ exitStatus' = Some(1)

\* ------------------------------------------------------------------- main
\* Lines 132-146: load and validate the configuration; exit(1) when the
\* file is missing or a required key is.
LoadConfig ==
    /\ pc = "start"
    /\ IF configFile = None \/ ~validate_config(config)
       THEN /\ pc' = "exited"
            /\ cause' = "SystemExit"
            /\ exitStatus' = Some(1)
       ELSE /\ pc' = "get_files"
            /\ UNCHANGED <<cause, exitStatus>>
    /\ UNCHANGED <<list, configFile, tz, listing, response, files, idx, depth,
                   content, points, rec, store, requests, fetches, fails,
                   sleeps, warnings, printed, cancelled,
                   writeCalls>>

\* Lines 150-154 with get_files (46-58): the listing request succeeds.
GetFilesOk ==
    /\ pc = "get_files"
    /\ \E lines \in Responses :
           /\ response' = lines
           /\ files' = get_files(lines)
    /\ requests' = requests + 1
    /\ listing' = "ok"
    /\ idx' = 1
    /\ pc' = IF list THEN "list" ELSE "loop"
    /\ UNCHANGED <<list, configFile, tz, depth, content, points, rec, store,
                   fetches, fails, sleeps, warnings, printed, cancelled,
                   cause, exitStatus,
                   writeCalls>>

\* Faulty variant of GetFilesFail: the failed listing request is retried.
GetFilesFailRetry ==
    /\ pc = "get_files"
    /\ requests' = requests + 1
    /\ listing' = "failed"
    /\ UNCHANGED <<pc, list, configFile, tz, response, files, idx, depth,
                   content, points, rec, store, fetches, fails, sleeps,
                   warnings, printed, cancelled, cause, exitStatus,
                   writeCalls>>

\* Lines 39-43 and 150: the listing request raises (raise_for_status on a
\* non-2xx status, or a network error); main has no handler around it.
GetFilesFail ==
    /\ pc = "get_files"
    /\ requests' = requests + 1
    /\ listing' = "failed"
    /\ Uncaught("HTTPError")
    /\ UNCHANGED <<list, configFile, tz, response, files, idx, depth, content,
                   points, rec, store, fetches, fails, sleeps, warnings,
                   printed, cancelled,
                   writeCalls>>

\* Lines 154-176: list mode builds unique_stats and stats_list, prints the
\* table and returns; a raise in either loop is not handled.
ListMode ==
    /\ pc = "list"
    /\ LET unique == UniqueStats(files, << >>)
           rows   == IF unique = None THEN None ELSE StatsList(unique[1], << >>)
       IN  IF rows = None
           THEN /\ Uncaught("AttributeError")
                /\ UNCHANGED printed
           ELSE /\ printed' = rows
                /\ pc' = "done"
                /\ exitStatus' = Some(0)
                /\ UNCHANGED cause
    /\ UNCHANGED <<list, configFile, tz, listing, response, files, idx, depth,
                   content, points, rec, store, requests, fetches, fails,
                   sleeps, warnings, cancelled,
                   writeCalls>>

\* Faulty variant of LoopDone: the loop ends one file early.
LoopDoneEarly ==
    /\ pc = "loop"
    /\ idx >= Len(files)
    /\ pc' = "done"
    /\ exitStatus' = Some(0)
    /\ UNCHANGED <<list, configFile, tz, listing, response, files, idx, depth,
                   content, points, rec, store, requests, fetches, fails,
                   sleeps, warnings, printed, cancelled, cause,
                   writeCalls>>

\* Line 180: files.items() is exhausted; main returns.
LoopDone ==
    /\ pc = "loop"
    /\ idx > Len(files)
    /\ pc' = "done"
    /\ exitStatus' = Some(0)
    /\ UNCHANGED <<list, configFile, tz, listing, response, files, idx, depth,
                   content, points, rec, store, requests, fetches, fails,
                   sleeps, warnings, printed, cancelled, cause,
                   writeCalls>>

\* Line 183: get_uuid_from_filename raises on a name without identifier.
LoopMalformed ==
    /\ pc = "loop"
    /\ idx <= Len(files)
    /\ UuidRaises(filename)
    /\ Uncaught("AttributeError")
    /\ UNCHANGED <<list, configFile, tz, listing, response, files, idx, depth,
                   content, points, rec, store, requests, fetches, fails,
                   sleeps, warnings, printed, cancelled,
                   writeCalls>>

\* Faulty variant of LoopSkip: break instead of continue.
LoopSkipBreak ==
    /\ pc = "loop"
    /\ idx <= Len(files)
    /\ ~UuidRaises(filename)
    /\ get_uuid_from_filename(filename) \notin DOMAIN stats_map
    /\ warnings' = Append(warnings, get_uuid_from_filename(filename))
    /\ pc' = "done"
    /\ exitStatus' = Some(0)
    /\ UNCHANGED <<list, configFile, tz, listing, response, files, idx, depth,
                   content, points, rec, store, requests, fetches, fails,
                   sleeps, printed, cancelled, cause,
                   writeCalls>>

\* Lines 185-187: the identifier is not in stats_map: warn and continue.
LoopSkip ==
    /\ pc = "loop"
    /\ idx <= Len(files)
    /\ ~UuidRaises(filename)
    /\ get_uuid_from_filename(filename) \notin DOMAIN stats_map
    /\ warnings' = Append(warnings, get_uuid_from_filename(filename))
    /\ idx' = idx + 1
    /\ UNCHANGED <<pc, list, configFile, tz, listing, response, files, depth,
                   content, points, rec, store, requests, fetches, fails,
                   sleeps, printed, cancelled, cause, exitStatus,
                   writeCalls>>

\* Lines 189-207: the identifier is mapped: call import_stats.
LoopImport ==
    /\ pc = "loop"
    /\ idx <= Len(files)
    /\ ~UuidRaises(filename)
    /\ get_uuid_from_filename(filename) \in DOMAIN stats_map
    /\ depth' = 1
    /\ pc' = "fetch"
    /\ writeCalls' = 0
    /\ UNCHANGED <<list, configFile, tz, listing, response, files, idx,
                   content, points, rec, store, requests, fetches, fails,
                   sleeps, warnings, printed, cancelled, cause, exitStatus>>

\* ------------------------------------------------------------ import_stats
measurement == map_entry.measurement

tags == ResolveTags(map_entry)

value_map == ResolveValueMap(map_entry)

\* Lines 98-99: an Exception raised in the try block is caught.
Raise ==
    /\ pc' = "except"
    /\ fails' = [fails EXCEPT ![idx] = @ + 1]

\* Line 67: the request for stats/<filename> succeeds.
FetchOk ==
    /\ pc = "fetch"
    /\ fetches' = [fetches EXCEPT ![idx] = @ + 1]
    /\ \E c \in Contents : content' = c
    /\ pc' = "parse"
    /\ UNCHANGED <<list, configFile, tz, listing, response, files, idx, depth,
                   points, rec, store, requests, fails, sleeps, warnings,
                   printed, cancelled, cause, exitStatus,
                   writeCalls>>

\* Line 67: the request raises.
FetchFail ==
    /\ pc = "fetch"
    /\ fetches' = [fetches EXCEPT ![idx] = @ + 1]
    /\ Raise
    /\ UNCHANGED <<list, configFile, tz, listing, response, files, idx, depth,
                   content, points, rec, store, requests, sleeps, warnings,
                   printed, cancelled, cause, exitStatus,
                   writeCalls>>

\* Lines 68-70: ElementTree.fromstring, which raises on text that is no
\* XML, then points = [].
Parse ==
    /\ pc = "parse"
    /\ IF content.wellformed
       THEN /\ points' = << >>
            /\ rec' = 1
            /\ pc' = "iter"
            /\ UNCHANGED fails
       ELSE /\ Raise
            /\ UNCHANGED <<points, rec>>
    /\ UNCHANGED <<list, configFile, tz, listing, response, files, idx, depth,
                   content, store, requests, fetches, sleeps, warnings,
                   printed, cancelled, cause, exitStatus,
                   writeCalls>>

\* Faulty variant of Iterate: a record whose transformation raises is
\* dropped and the loop goes on with the next one.
IterateSkipBad ==
    /\ pc = "iter"
    /\ rec <= Len(content.S)
    /\ LET point == TransformRecord(content.S[rec], measurement, tags,
                                    value_map, tz)
       IN  points' = IF point = None THEN points ELSE Append(points, point[1])
    /\ rec' = rec + 1
    /\ UNCHANGED <<pc, fails>>
    /\ UNCHANGED <<list, configFile, tz, listing, response, files, idx, depth,
                   content, store, requests, fetches, sleeps, warnings,
                   printed, cancelled, cause, exitStatus,
                   writeCalls>>

\* Lines 72-91: one pass of the loop over the S elements.
Iterate ==
    /\ pc = "iter"
    /\ rec <= Len(content.S)
    /\ LET point == TransformRecord(content.S[rec], measurement, tags,
                                    value_map, tz)
       IN  IF point = None
           THEN /\ Raise
                /\ UNCHANGED <<points, rec>>
           ELSE /\ points' = Append(points, point[1])
                /\ rec' = rec + 1
                /\ UNCHANGED <<pc, fails>>
    /\ UNCHANGED <<list, configFile, tz, listing, response, files, idx, depth,
                   content, store, requests, fetches, sleeps, warnings,
                   printed, cancelled, cause, exitStatus,
                   writeCalls>>

\* Lines 93-95: write_points accepts the batch; "Data written".
WriteOk ==
    /\ pc = "iter"
    /\ rec > Len(content.S)
    /\ store' = Append(store, [file |-> idx, points |-> points])
    /\ pc' = "return"
    /\ writeCalls' = writeCalls + 1
    /\ UNCHANGED <<list, configFile, tz, listing, response, files, idx, depth,
                   content, points, rec, requests, fetches, fails, sleeps,
                   warnings, printed, cancelled, cause, exitStatus>>

\* Line 93: write_points raises; nothing is stored.
WriteFail ==
    /\ pc = "iter"
    /\ rec > Len(content.S)
    /\ Raise
    /\ writeCalls' = writeCalls + 1
    /\ UNCHANGED <<list, configFile, tz, listing, response, files, idx, depth,
                   content, points, rec, store, requests, fetches, sleeps,
                   warnings, printed, cancelled, cause, exitStatus>>

\* Lines 99-101: log the error and sleep 10 seconds.
Sleep ==
    /\ pc = "except"
    /\ sleeps' = [sleeps EXCEPT ![idx] = @ + 1]
    /\ pc' = "retry"
    /\ UNCHANGED <<list, configFile, tz, listing, response, files, idx, depth,
                   content, points, rec, store, requests, fetches, fails,
                   warnings, printed, cancelled, cause, exitStatus,
                   writeCalls>>

\* Faulty variant of Retry: after the delay the file is given up and the
\* invocation returns into the loop of main, which takes the next file.
RetryGiveUp ==
    /\ pc = "retry"
    /\ depth' = 0
    /\ idx' = idx + 1
    /\ pc' = "loop"
    /\ content' = NoContent
    /\ points' = << >>
    /\ rec' = 0
    /\ writeCalls' = 0
    /\ UNCHANGED <<list, configFile, tz, listing, response, files, store,
                   requests, fetches, fails, sleeps, warnings, printed,
                   cancelled, cause, exitStatus>>

\* Faulty variant of Retry: the same invocation starts the next attempt (a
\* loop instead of the recursive call).
RetryLoop ==
    /\ pc = "retry"
    /\ pc' = "fetch"
    /\ content' = NoContent
    /\ points' = << >>
    /\ rec' = 0
    /\ writeCalls' = 0
    /\ UNCHANGED <<list, configFile, tz, listing, response, files, idx, depth,
                   store, requests, fetches, fails, sleeps, warnings, printed,
                   cancelled, cause, exitStatus>>

\* Line 103: import_stats calls itself from its handler.  The new frame
\* starts without locals.  At the recursion limit the call raises
\* RecursionError inside the handler, where no try block encloses it, so it
\* leaves every active invocation and main.
Retry ==
    /\ pc = "retry"
    /\ IF depth < RecursionLimit
       THEN /\ depth' = depth + 1
            /\ pc' = "fetch"
            /\ content' = NoContent
            /\ points' = << >>
            /\ rec' = 0
            /\ writeCalls' = 0
            /\ UNCHANGED <<cause, exitStatus>>
       ELSE /\ Uncaught("RecursionError")
            /\ UNCHANGED <<depth, content, points, rec, writeCalls>>
    /\ UNCHANGED <<list, configFile, tz, listing, response, files, idx,
                   store, requests, fetches, fails, sleeps, warnings, printed,
                   cancelled>>

\* Faulty variant of Return: an outer invocation whose nested call returned
\* starts its own attempt again instead of returning.
ReturnRefetch ==
    /\ pc = "return"
    /\ IF depth > 1
       THEN /\ depth' = depth - 1
            /\ pc' = "fetch"
            /\ UNCHANGED idx
       ELSE /\ depth' = 0
            /\ idx' = idx + 1
            /\ pc' = "loop"
    /\ content' = NoContent
    /\ points' = << >>
    /\ rec' = 0
    /\ writeCalls' = 0
    /\ UNCHANGED <<list, configFile, tz, listing, response, files, store,
                   requests, fetches, fails, sleeps, warnings, printed,
                   cancelled, cause, exitStatus>>

\* The innermost invocation returns (after line 95, or after the nested
\* call of line 103 returned); the outermost one returns into the loop of
\* main, which moves to the next file.
Return ==
    /\ pc = "return"
    /\ IF depth > 1
       THEN /\ depth' = depth - 1
            /\ UNCHANGED <<pc, idx>>
       ELSE /\ depth' = 0
            /\ idx' = idx + 1
            /\ pc' = "loop"
    /\ content' = NoContent
    /\ points' = << >>
    /\ rec' = 0
    /\ writeCalls' = 0
    /\ UNCHANGED <<list, configFile, tz, listing, response, files, store,
                   requests, fetches, fails, sleeps, warnings, printed,
                   cancelled, cause, exitStatus>>

\* Faulty variant of Interrupt: the handler catches the KeyboardInterrupt
\* like any other exception (no "except KeyboardInterrupt: raise" before a
\* handler of BaseException).
InterruptCaught ==
    /\ pc \in {"fetch", "parse", "iter"}
    /\ cancelled' = TRUE
    /\ pc' = "except"
    /\ fails' = [fails EXCEPT ![idx] = @ + 1]
    /\ UNCHANGED <<list, configFile, tz, listing, response, files, idx, depth,
                   content, points, rec, store, requests, fetches, sleeps,
                   warnings, printed, cause, exitStatus,
                   writeCalls>>

\* Lines 96-97: a KeyboardInterrupt raised in the try block is re-raised;
\* one raised in the handler (during the sleep) is not caught at all.  Each
\* outer invocation is inside its handler at line 103, so the interrupt
\* leaves all of them and main, and their locals are gone.  The
\* interpreter ends with status 1, or with 130 where it re-delivers SIGINT
\* to itself.
Interrupt ==
    /\ pc \in {"fetch", "parse", "iter", "except", "retry"}
    /\ cancelled' = TRUE
    /\ pc' = "aborted"
    /\ cause' = "KeyboardInterrupt"
    /\ \E status \in {1, 130} : exitStatus' = Some(status)
    /\ content' = NoContent
    /\ points' = << >>
    /\ rec' = 0
    /\ writeCalls' = 0
    /\ UNCHANGED <<list, configFile, tz, listing, response, files, idx, depth,
                   store, requests, fetches, fails, sleeps, warnings, printed>>

Next ==
    \/ LoadConfig
    \/ GetFilesOk
    \/ GetFilesFail
    \/ ListMode
    \/ LoopDone
    \/ LoopMalformed
    \/ LoopSkip
    \/ LoopImport
    \/ FetchOk
    \/ FetchFail
    \/ Parse
    \/ Iterate
    \/ WriteOk
    \/ WriteFail
    \/ Sleep
    \/ Retry
    \/ Return
    \/ Interrupt

Spec == Init /\ [][Next]_vars

\* The run is one sequential process: while a statement remains it is
\* executed, and every request, write and sleep returns or raises.
LiveSpec == Spec /\ WF_vars(Next)

\* =================================================================== claims
ImportPcs == {"fetch", "parse", "iter", "except", "retry", "return"}

\* Number of batches the store accepted for the i-th listed file.
WritesFor(i) == Cardinality({k \in DOMAIN store : store[k].file = i})

HasId(i) == \E k \in DOMAIN files[i][1] : files[i][1][k] \in HexChars

Mapped(i) == HasId(i) /\ get_uuid_from_filename(files[i][1]) \in DOMAIN stats_map

Unmapped(i) == HasId(i) /\ get_uuid_from_filename(files[i][1]) \notin DOMAIN stats_map

\* C1: after any number of consecutive non-cancellation failures of a file
\* the orchestrator is still retrying that same file: it has neither
\* terminated nor moved on to another file (no retry ceiling).
C1_RetryWithoutCeiling ==
    \A i \in DOMAIN files :
        (fails[i] > 0 /\ WritesFor(i) = 0 /\ ~cancelled)
            => (idx = i /\ pc \in {"fetch", "parse", "iter", "except", "retry"})

\* The point the record at position k of the fetched content must give.
PointMatches(point, stat) ==
    /\ point.measurement = measurement
    /\ point.tags = tags
    /\ point.time = ConvertTime(stat.T[1], tz)
    /\ LET vm == value_map
       IN  /\ DOMAIN point.fields = {vm[n][2] : n \in DOMAIN vm}
           /\ \A n \in DOMAIN vm :
                  point.fields[vm[n][2]] = ParseFloat(stat.attrs[vm[n][1]])

\* C2: for every mapped file, failed attempts followed by a successful one
\* give exactly one accepted write_points call; its batch holds one point
\* per S element of the content fetched in that attempt, in order; every
\* failed attempt is followed by one delay before the next attempt; and
\* once the write succeeded no invocation fetches or writes again for the
\* file (one fetch per attempt, one attempt more than failures).
C2_ExactlyOneWrite ==
    \A i \in DOMAIN files :
      LET writes == WritesFor(i)
      IN
        /\ writes <= 1
        /\ (~list /\ idx = i /\ pc = "fetch")
               => (sleeps[i] = fails[i] /\ fetches[i] = fails[i])
        /\ (~list /\ idx = i /\ pc \in {"parse", "iter"})
               => (sleeps[i] = fails[i] /\ fetches[i] = fails[i] + 1)
        /\ (~list /\ idx = i /\ pc \in {"except", "retry"})
               => (sleeps[i] \in {fails[i] - 1, fails[i]}
                   /\ (pc = "retry" => sleeps[i] = fails[i])
                   /\ fetches[i] = fails[i])
        /\ writes = 1
               => (fetches[i] = fails[i] + 1 /\ sleeps[i] = fails[i])
        /\ (~list /\ (idx > i \/ (idx = i /\ pc = "return")) /\ Mapped(i))
               => writes = 1
        /\ (idx = i /\ pc = "return" /\ content.wellformed)
               => /\ store[Len(store)].file = i
                  /\ Len(store[Len(store)].points) = Len(content.S)
                  /\ \A k \in DOMAIN content.S :
                         PointMatches(store[Len(store)].points[k], content.S[k])

\* Two failed attempts, then a successful one that wrote two points, and
\* all three invocations have returned.
C2_Witness ==
    /\ pc = "loop"
    /\ idx = 2
    /\ fails[1] = 2
    /\ WritesFor(1) = 1
    /\ Len(store[1].points) = 2

C4_UnmappedSkipped ==
    /\ [](\A i \in DOMAIN files :
              (~list /\ Unmapped(i))
                  => /\ fetches[i] = 0
                     /\ WritesFor(i) = 0
                     /\ ~(idx = i /\ pc \in ImportPcs))
    /\ [][(pc = "loop" /\ idx \in DOMAIN files /\ Unmapped(idx))
              => (pc' = "loop" /\ idx' = idx + 1)]_vars

\* An unmapped file was skipped and the mapped file after it was imported.
C4_Witness ==
    /\ ~list
    /\ Len(files) = 2
    /\ Unmapped(1)
    /\ fetches[1] = 0
    /\ WritesFor(2) = 1

\* C5: the run does not crash on a listed file whose path has no run of
\* hex digits or hyphens: the file is skipped and the loop goes on.
C5_MalformedPathSkipped ==
    \A i \in DOMAIN files :
        (~list /\ idx = i /\ ~HasId(i)) => pc # "crashed"

\* The anchor lines of the listing response, in order.
Anchors == SelectSeq(response, LAMBDA line : line.anchor)

FirstLineOf(path) ==
    LET anchors == Anchors
    IN  CHOOSE n \in DOMAIN anchors :
            /\ anchors[n].href = path
            /\ \A m \in 1..(n - 1) : anchors[m].href # path

LastLineOf(path) ==
    LET anchors == Anchors
    IN  CHOOSE n \in DOMAIN anchors :
            /\ anchors[n].href = path
            /\ \A m \in (n + 1)..Len(anchors) : anchors[m].href # path

\* C6 as stated: get_files returns one entry per matching anchor line, in
\* the order of the response, each line keeping its own title, also when
\* two lines have the same path.
C6_OneEntryPerLine ==
    listing = "ok"
        => /\ Len(files) = Len(Anchors)
           /\ \A n \in DOMAIN Anchors :
                  files[n] = <<Anchors[n].href, Anchors[n].text>>

\* C6, amended: get_files returns one entry per distinct path among the
\* matching anchor lines, in the order of each path's first line; lines
\* with the same path give a single entry, which carries the title of the
\* last of them.
C6_OneEntryPerPath ==
    listing = "ok"
        => LET anchors == Anchors
               first == [k \in DOMAIN files |-> FirstLineOf(files[k][1])]
           IN  /\ {files[k][1] : k \in DOMAIN files}
                      = {anchors[n].href : n \in DOMAIN anchors}
               /\ \A j, k \in DOMAIN files :
                      j < k => /\ files[j][1] # files[k][1]
                               /\ first[j] < first[k]
               /\ \A k \in DOMAIN files :
                      files[k][2] = anchors[LastLineOf(files[k][1])].text

\* Two anchor lines with the same path and different titles gave one
\* entry, with the second title.
C6_Witness ==
    /\ listing = "ok"
    /\ Len(Anchors) = 2
    /\ Anchors[1].href = Anchors[2].href
    /\ Anchors[1].text # Anchors[2].text
    /\ files = << <<Anchors[2].href, Anchors[2].text>> >>

\* C7: a failed listing request is not retried: it stays the only listing
\* request, the run has ended, and no file is fetched and nothing written.
C7_ListingFailureEndsRun ==
    listing = "failed"
        => /\ requests = 1
           /\ pc = "crashed"
           /\ exitStatus # None
           /\ \A i \in DOMAIN fetches : fetches[i] = 0
           /\ store = << >>

\* The listing request of an import run failed.
C7_Witness ==
    /\ listing = "failed"
    /\ ~list
    /\ requests = 1

RequiredKeys == {"miniserver", "influxdb", "stats_map"}

ConfigOk == configFile # None /\ RequiredKeys \subseteq DOMAIN config

\* C8 as stated: with a configuration that is present and valid the
\* process never ends with a non-zero status, whatever the listing fetch,
\* the identifier extraction and the imports do.
C8_NonZeroOnlyOnConfigFailure ==
    (ConfigOk /\ exitStatus # None) => exitStatus = Some(0)

\* C8, amended: the process ends with status zero exactly when main
\* returns (the list is printed, or every listed file is imported or
\* skipped); it ends with a non-zero status on a startup configuration
\* failure and also, with a valid configuration, whenever an exception
\* leaves main: a failed listing request, a path or title the patterns do
\* not match, a cancellation, or the recursion limit reached by retrying.
C8_ExitStatus ==
    exitStatus # None
        => /\ exitStatus = Some(0) <=> pc = "done"
           /\ pc = "exited" <=> ~ConfigOk
           /\ ~ConfigOk => exitStatus = Some(1)
           /\ (ConfigOk /\ pc # "done")
                  => /\ exitStatus # Some(0)
                     /\ cause \in {"HTTPError", "AttributeError",
                                   "KeyboardInterrupt", "RecursionError"}

\* A run with a valid configuration ended with status 1 because the
\* listing request failed.
C8_Witness ==
    /\ ConfigOk
    /\ cause = "HTTPError"
    /\ exitStatus = Some(1)

\* C9: a configuration that lacks a required top-level key ends the run
\* with a non-zero status before any network activity: no listing request,
\* no file fetch, no write.
C9_ConfigFailureBeforeNetwork ==
    (configFile # None /\ ~(RequiredKeys \subseteq DOMAIN config))
        => /\ pc \in {"start", "exited"}
           /\ pc = "exited" => (exitStatus # None /\ exitStatus # Some(0))
           /\ requests = 0
           /\ \A i \in DOMAIN fetches : fetches[i] = 0
           /\ store = << >>

\* The run exited on a configuration without "influxdb".
C9_Witness ==
    /\ configFile # None
    /\ "influxdb" \notin DOMAIN config
    /\ pc = "exited"
    /\ exitStatus = Some(1)

\* name is title with its trailing numeric suffix (" " and digits) removed.
IsStripped(name, title) ==
    /\ Len(name) + 2 <= Len(title)
    /\ SubSeq(title, 1, Len(name)) = name
    /\ title[Len(name) + 1] = " "
    /\ \A j \in (Len(name) + 2)..Len(title) : title[j] \in Digits

\* C10: a list-mode run imports nothing (no file fetch, no write), and the
\* table it prints has exactly one row per distinct identifier among the
\* listed files, the row's name being a listed title of that identifier
\* without its trailing numeric suffix.
C10_ListMode ==
    /\ list => /\ \A i \in DOMAIN fetches : fetches[i] = 0
               /\ store = << >>
               /\ pc \notin ImportPcs
    /\ (list /\ pc = "done")
           => /\ printed # None
              /\ {printed[1][r][1] : r \in DOMAIN printed[1]}
                     = {get_uuid_from_filename(Anchors[n].href) : n \in DOMAIN Anchors}
              /\ \A q, r \in DOMAIN printed[1] :
                     q # r => printed[1][q][1] # printed[1][r][1]
              /\ \A r \in DOMAIN printed[1] :
                     \E n \in DOMAIN Anchors :
                         /\ get_uuid_from_filename(Anchors[n].href) = printed[1][r][1]
                         /\ IsStripped(printed[1][r][2], Anchors[n].text)
    /\ ~list => printed = None

\* List mode printed one row for two listed files of the same identifier.
C10_Witness ==
    /\ list
    /\ pc = "done"
    /\ Len(files) = 2
    /\ Len(printed[1]) = 1

\* The wall clock time of a T attribute taken verbatim as UTC.
Verbatim(t) == [day |-> t.day, hour |-> t.hour, zone |-> "Z"]

\* C11: whatever the UTC offset of the host's local time, the time of a
\* point is the date and time of day of its sample's T attribute taken
\* verbatim as UTC, with no time zone shift.
C11_TimeVerbatim ==
    pc \in {"iter", "return"}
        => \A k \in DOMAIN points :
               points[k].time = Verbatim(content.S[k].T[1])

\* The mapping entry of the i-th listed file.
EntryOf(i) == stats_map[get_uuid_from_filename(files[i][1])]

\* C12: an entry without "values" maps exactly attribute V to field
\* "value" and an entry without "tags" gives points without tags; "values"
\* and "tags" that are present are used unchanged, and every point of a
\* file carries the entry's measurement and the same tags.
C12_MappingDefaults ==
    /\ \A n \in DOMAIN store :
           LET entry == EntryOf(store[n].file)
           IN
           \A k \in DOMAIN store[n].points :
               LET point == store[n].points[k]
               IN  /\ point.measurement = entry.measurement
                   /\ "tags" \notin DOMAIN entry => point.tags = None
                   /\ "tags" \in DOMAIN entry => point.tags = Some(entry.tags)
                   /\ "values" \notin DOMAIN entry
                          => DOMAIN point.fields = {"value"}
                   /\ "values" \in DOMAIN entry
                          => DOMAIN point.fields
                                 = {entry.values[m][2] : m \in DOMAIN entry.values}
    /\ pc \in {"iter", "return"}
           => LET entry == EntryOf(idx)
              IN
              \A k \in DOMAIN points :
                  LET attrs == content.S[k].attrs
                  IN  /\ "values" \notin DOMAIN entry
                             => points[k].fields = [value |-> ParseFloat(attrs.V)]
                      /\ "values" \in DOMAIN entry
                             => \A m \in DOMAIN entry.values :
                                    points[k].fields[entry.values[m][2]]
                                        = ParseFloat(attrs[entry.values[m][1]])

\* One file written under an entry with tags and values, the next under an
\* entry with neither.
C12_Witness ==
    /\ Len(store) = 2
    /\ "tags" \in DOMAIN EntryOf(store[1].file)
    /\ "values" \in DOMAIN EntryOf(store[1].file)
    /\ Len(store[1].points) = 2
    /\ DOMAIN EntryOf(store[2].file) = {"measurement"}
    /\ Len(store[2].points) > 0

\* Something was done for the i-th listed file: a request, a failure, a
\* delay or an accepted write.
Touched(i) ==
    fetches[i] > 0 \/ fails[i] > 0 \/ sleeps[i] > 0 \/ WritesFor(i) > 0

\* C13: files are processed one at a time in listing order: nothing is
\* fetched, delayed or written for a mapped file before the successful
\* write of every mapped file listed before it, at most one file is
\* between its first fetch and its successful write, and the batches reach
\* the store in listing order.
C13_OneFileAtATime ==
    /\ \A i, j \in DOMAIN files :
           (~list /\ i < j /\ Touched(j) /\ Mapped(j) /\ Mapped(i))
               => WritesFor(i) = 1
    /\ \A i, j \in DOMAIN files :
           (Touched(i) /\ WritesFor(i) = 0 /\ Touched(j) /\ WritesFor(j) = 0)
               => i = j
    /\ \A i \in DOMAIN files :
           (Touched(i) /\ WritesFor(i) = 0) => idx = i
    /\ \A m, n \in DOMAIN store : m < n => store[m].file < store[n].file

\* Both listed files were imported, each after a failed attempt.
C13_Witness ==
    /\ Len(files) = 2
    /\ fails[1] > 0
    /\ fails[2] > 0
    /\ WritesFor(1) = 1
    /\ WritesFor(2) = 1

\* An S element that lacks a mapped attribute or holds non-numeric text in
\* it.
BadRecord(stat) ==
    LET vm == value_map
    IN  \E m \in DOMAIN vm :
            \/ vm[m][1] \notin DOMAIN stat.attrs
            \/ stat.attrs[vm[m][1]] \notin {"21.5", "7"}

\* C14: an attempt issues write_points at most once and only after every
\* S element of the content it fetched has been transformed; if a record
\* lacks a mapped attribute or holds non-numeric text, the attempt issues
\* no write; and the points of an attempt are those of the records of its
\* own content read so far, starting from an empty list (nothing is carried
\* over from a failed attempt).
C14_WriteAfterFullTransform ==
    (idx \in DOMAIN files /\ pc \in ImportPcs)
        => /\ writeCalls <= 1
           /\ writeCalls = 1
                  => /\ content.wellformed
                     /\ rec = Len(content.S) + 1
                     /\ Len(points) = Len(content.S)
                     /\ pc \in {"except", "retry", "return"}
           /\ (pc = "return" /\ content.wellformed) => writeCalls = 1
           /\ (\E k \in DOMAIN content.S : BadRecord(content.S[k]))
                  => writeCalls = 0
           /\ pc = "fetch" => (points = << >> /\ writeCalls = 0)
           /\ (pc \in {"iter", "except", "retry"} /\ content.wellformed)
                  => /\ Len(points) = rec - 1
                     /\ \A k \in DOMAIN points :
                            PointMatches(points[k], content.S[k])
                     /\ \A k \in DOMAIN points : ~BadRecord(content.S[k])

\* A second attempt built one point and then failed on a bad second
\* record, without a write.
C14_Witness ==
    /\ pc = "except"
    /\ depth = 2
    /\ content.wellformed
    /\ Len(content.S) = 2
    /\ Len(points) = 1
    /\ writeCalls = 0
    /\ BadRecord(content.S[2])

\* The premises of C15, as far as a state shows them: an import run with a
\* valid configuration, no cancellation, a listing that was served, no
\* listed path without identifier, and no file whose attempts all failed
\* up to the end of the run.
C15_Premise ==
    /\ ~list
    /\ pc # "exited"
    /\ ~cancelled
    /\ listing # "failed"
    /\ cause \notin {"AttributeError", "RecursionError"}

\* The run has ended with exactly one batch written for each mapped listed
\* file and none for an unmapped one.
C15_Good ==
    /\ pc = "done"
    /\ \A i \in DOMAIN files : Mapped(i) => WritesFor(i) = 1
    /\ \A i \in DOMAIN files : Unmapped(i) => WritesFor(i) = 0
    /\ Len(store) = Cardinality({i \in DOMAIN files : Mapped(i)})

\* C15: if no cancellation occurs, the listing fetch succeeds, every listed
\* path has an identifier and for each mapped file some attempt succeeds,
\* the run eventually terminates, with exactly one batch written for each
\* mapped listed file and none for any unmapped file.
\* ([]C15_Premise) => <>C15_Good, written as the equivalent single
\* eventuality: a run whose premise never breaks reaches C15_Good.
C15_TransientFailuresTerminate == <>(~C15_Premise \/ C15_Good)

\* The run ended after two listed files were imported, the first one after
\* failed attempts.
C15_Witness ==
    /\ pc = "done"
    /\ ~list
    /\ Len(store) = 2
    /\ fails[1] = 2
    /\ exitStatus = Some(0)

\* C16: a mapped file whose every attempt fails for a reason other than a
\* cancellation is retried forever: as long as all its attempts have
\* failed the run has not ended, no batch was written for it, and nothing
\* was done for a file listed after it.
C16_FailingFileRetriedForever ==
    \A i \in DOMAIN files :
        (~list /\ Mapped(i) /\ fetches[i] > 0 /\ fails[i] = fetches[i]
             /\ ~cancelled)
            => /\ exitStatus = None
               /\ WritesFor(i) = 0
               /\ \A j \in DOMAIN files : j > i => ~Touched(j)

====
